---- MODULE Spec2Model ----
(***************************************************************************)
(* JC3D engine: the three-dimensional vector specialisation                *)
(* (Engine/Source/Public/Math/Vector3.h), the application run loop         *)
(* (Engine/Source/Private/Application.cpp) and the file utilities          *)
(* (Engine/Source/Private/System/File.cpp).                                *)
(*                                                                         *)
(* Four specifications share the module's variables:                       *)
(*   Spec      a Vector<3,T> object: construction, writes, destruction     *)
(*   SpecCross Vector<3,T>::Cross applied to a pair of vectors             *)
(*   SpecApp   Application::Run with the window's event callback           *)
(*   SpecFile  File::Write, File::Exists, File::Delete on a file system    *)
(***************************************************************************)
EXTENDS Integers, Sequences, FiniteSets, TLC

VARIABLES
    \* ---- a Vector<3,T> object --------------------------------------------
    Data,           \* the union's storage: slot i holds Data[i]
    initialized,    \* the slots that hold a defined (written) value
    vstate,         \* "raw" | "constructed" | "aborted"
    last,           \* the last operation on the object and its inputs
    \* ---- Vector<3,T>::Cross ----------------------------------------------
    ca, cb,         \* the operands a and b
    cr,             \* the returned vector
    cpc,            \* "idle" | "ready" | "done"
    \* ---- Application -----------------------------------------------------
    m_IsRunning,    \* Application::m_IsRunning
    pc,             \* "off" | "main" | "test" | "update" | "returned"
    nEvents,        \* events the window has delivered in the current OnUpdate
    lastEvent,      \* type of the last event passed to OnEvent
    handled,        \* Event::Handled of that event
    frames,         \* OnUpdate calls begun (saturating)
    closeSeen,      \* a WindowCloseEvent has gone through OnEvent
    \* ---- File ------------------------------------------------------------
    fs,             \* path -> content, or NoFile
    writable,       \* the paths an std::ofstream can open
    fop             \* the last File call: [op, path, ret]

vecVars  == <<Data, initialized, vstate, last>>
crossVars == <<ca, cb, cr, cpc>>
appVars  == <<m_IsRunning, pc, nEvents, lastEvent, handled, frames, closeSeen>>
fileVars == <<fs, writable, fop>>
vars == <<vecVars, crossVars, appVars, fileVars>>

\* each part of the program leaves the state of the others alone
VecFrame == UNCHANGED <<crossVars, appVars, fileVars>>
CrossFrame == UNCHANGED <<vecVars, appVars, fileVars>>
AppFrame == UNCHANGED <<vecVars, crossVars, fileVars>>
FileFrame == UNCHANGED <<vecVars, crossVars, appVars>>

(***************************************************************************)
(* Bounds of the model                                                     *)
(***************************************************************************)
MaxAbs == 3             \* element values range over -MaxAbs..MaxAbs
MaxCrossAbs == 2        \* Cross operands range over -MaxCrossAbs..MaxCrossAbs
MaxListVal == 2         \* initializer-list values range over 0..MaxListVal
MaxListLen == 4         \* initializer lists hold 0..MaxListLen values
MaxEventsPerUpdate == 3 \* events one Window::OnUpdate delivers
MaxFrames == 3          \* the frame counter saturates here

Elem == -MaxAbs..MaxAbs
CrossElem == -MaxCrossAbs..MaxCrossAbs
ListVals == 0..MaxListVal

RECURSIVE SeqsUpTo(_, _)
SeqsUpTo(S, n) ==
    IF n = 0 THEN {<<>>}
    ELSE SeqsUpTo(S, n - 1) \cup [1..n -> S]

InitLists == SeqsUpTo(ListVals, MaxListLen)

(***************************************************************************)
(* Vector<3,T>: storage                                                    *)
(***************************************************************************)
\* std::array<T, 3>: the number of elements
Size == 3
Slots == 0..(Size - 1)

\* T() for a numeric T
DefaultT == 0

Fields == {"X", "Y", "Z"}

\* faulty variant: Y and Z declared in the other order
FieldOffsetYZSwapped(f) ==
    CASE f = "X" -> 0
      [] f = "Y" -> 2
      [] f = "Z" -> 1

\* the anonymous struct { T X; T Y; T Z; } laid over Data: a field's slot
FieldOffset(f) ==
    CASE f = "X" -> 0
      [] f = "Y" -> 1
      [] f = "Z" -> 2

\* v.X, v.Y, v.Z
ReadField(d, f) == d[FieldOffset(f)]

\* v.Data[i]
ReadIndex(d, i) == d[i]

\* v.X = val
WriteFieldData(d, f, val) == [d EXCEPT ![FieldOffset(f)] = val]

\* v.Data[i] = val
WriteIndexData(d, i, val) == [d EXCEPT ![i] = val]

\* Data(): value-initialisation of the array
ValueInit == [i \in Slots |-> DefaultT]

\* faulty variant: only the listed values are copied, the other slots keep what the
\* storage held
AssignListPrefix(old, list) ==
    [i \in Slots |-> IF i + 1 <= Len(list) THEN list[i + 1] ELSE old[i]]

\* Data = { ... }: the whole array is assigned from a list of at most Size
\* values; elements without an initializer are value-initialised
AssignList(old, list) ==
    [i \in Slots |-> IF i + 1 <= Len(list) THEN list[i + 1] ELSE DefaultT]

\* faulty variant: only the listed slots become defined
AssignListInitPrefix(oldInit, list) ==
    oldInit \cup {i \in Slots : i + 1 <= Len(list)}

\* the slots that hold a defined value after Data = { ... }
AssignListInit(oldInit, list) == Slots

(***************************************************************************)
(* Vector<3,T>: constructors, as the storage they leave                    *)
(***************************************************************************)
\* Vector()
CtorDefault == ValueInit

\* Vector(const T& scalar)
CtorScalar(scalar) == AssignList(CtorDefault, <<scalar, scalar, scalar>>)

\* faulty variant: the scalar is placed first
CtorExtendScalarFirst(vector, z) == AssignList(CtorDefault, <<z, vector.X, vector.Y>>)

\* Vector(const Vector<2,T>& vector, const T& z)
CtorExtend(vector, z) == AssignList(CtorDefault, <<vector.X, vector.Y, z>>)

\* Vector(const T& x, const T& y, const T& z)
CtorXYZ(x, y, z) == AssignList(CtorDefault, <<x, y, z>>)

\* faulty variant: the bound is off by one
AssertSizeOffByOne(args) == Len(args) <= Size + 1

\* assert(args.size() <= Size())
AssertSize(args) == Len(args) <= Size

\* Vector(std::initializer_list<T> args), past the assertion: no
\* mem-initializer, so the assignment acts on the raw storage
CtorList(raw, args) == AssignList(raw, args)

\* Vector<2,T>, as its fields X and Y
Vec2s == [X : Elem, Y : Elem]
NoVec == [X |-> DefaultT, Y |-> DefaultT]

NoOp == [op |-> "none", list |-> <<>>, slot |-> 0, field |-> "", vec |-> NoVec]

InitVec ==
    /\ Data \in [Slots -> Elem]
    /\ initialized = {}
    /\ vstate = "raw"
    /\ last = NoOp

IdleVec ==
    /\ Data = ValueInit
    /\ initialized = {}
    /\ vstate = "raw"
    /\ last = NoOp

ConstructDefault ==
    /\ vstate = "raw"
    /\ Data' = CtorDefault
    /\ initialized' = Slots
    /\ vstate' = "constructed"
    /\ last' = [op |-> "Default", list |-> <<>>, slot |-> 0, field |-> "", vec |-> NoVec]
    /\ VecFrame

ConstructScalar ==
    /\ vstate = "raw"
    /\ \E s \in Elem :
        /\ Data' = CtorScalar(s)
        /\ last' = [op |-> "Scalar", list |-> <<s>>, slot |-> 0, field |-> "", vec |-> NoVec]
    /\ initialized' = Slots
    /\ vstate' = "constructed"
    /\ VecFrame

ConstructExtend ==
    /\ vstate = "raw"
    /\ \E v2 \in Vec2s, z \in Elem :
        /\ Data' = CtorExtend(v2, z)
        /\ last' = [op |-> "Extend", list |-> <<z>>, slot |-> 0, field |-> "", vec |-> v2]
    /\ initialized' = Slots
    /\ vstate' = "constructed"
    /\ VecFrame

ConstructXYZ ==
    /\ vstate = "raw"
    /\ \E x \in Elem, y \in Elem, z \in Elem :
        /\ Data' = CtorXYZ(x, y, z)
        /\ last' = [op |-> "XYZ", list |-> <<x, y, z>>, slot |-> 0, field |-> "", vec |-> NoVec]
    /\ initialized' = Slots
    /\ vstate' = "constructed"
    /\ VecFrame

ConstructList ==
    /\ vstate = "raw"
    /\ \E args \in InitLists :
        /\ last' = [op |-> "List", list |-> args, slot |-> 0, field |-> "", vec |-> NoVec]
        /\ IF AssertSize(args)
           THEN /\ Data' = CtorList(Data, args)
                /\ initialized' = AssignListInit(initialized, args)
                /\ vstate' = "constructed"
           ELSE /\ vstate' = "aborted"
                /\ UNCHANGED <<Data, initialized>>
    /\ VecFrame

WriteField ==
    /\ vstate = "constructed"
    /\ \E f \in Fields, val \in Elem :
        /\ Data' = WriteFieldData(Data, f, val)
        /\ initialized' = initialized \cup {FieldOffset(f)}
        /\ last' = [op |-> "WriteField", list |-> <<val>>, slot |-> 0, field |-> f, vec |-> NoVec]
    /\ UNCHANGED vstate
    /\ VecFrame

WriteIndex ==
    /\ vstate = "constructed"
    /\ \E i \in Slots, val \in Elem :
        /\ Data' = WriteIndexData(Data, i, val)
        /\ initialized' = initialized \cup {i}
        /\ last' = [op |-> "WriteIndex", list |-> <<val>>, slot |-> i, field |-> "", vec |-> NoVec]
    /\ UNCHANGED vstate
    /\ VecFrame

\* the object goes out of scope; its storage keeps the bytes but no value
Destroy ==
    /\ vstate = "constructed"
    /\ vstate' = "raw"
    /\ initialized' = {}
    /\ last' = NoOp
    /\ UNCHANGED Data
    /\ VecFrame

(***************************************************************************)
(* Vector<3,T>::Cross                                                      *)
(***************************************************************************)
\* faulty variant: the operands of ry's subtraction are exchanged
CrossRyExchanged(a, b) ==
    LET rx == ReadField(a, "Y") * ReadField(b, "Z") - ReadField(a, "Z") * ReadField(b, "Y")
        ry == ReadField(a, "X") * ReadField(b, "Z") - ReadField(a, "Z") * ReadField(b, "X")
        rz == ReadField(a, "X") * ReadField(b, "Y") - ReadField(a, "Y") * ReadField(b, "X")
    IN  CtorXYZ(rx, ry, rz)

\* faulty variant: rz adds its two products
CrossRzAdds(a, b) ==
    LET rx == ReadField(a, "Y") * ReadField(b, "Z") - ReadField(a, "Z") * ReadField(b, "Y")
        ry == ReadField(a, "Z") * ReadField(b, "X") - ReadField(a, "X") * ReadField(b, "Z")
        rz == ReadField(a, "X") * ReadField(b, "Y") + ReadField(a, "Y") * ReadField(b, "X")
    IN  CtorXYZ(rx, ry, rz)

\* faulty variant: rx reads b.Y where the code reads b.Z
CrossRxWrongField(a, b) ==
    LET rx == ReadField(a, "Y") * ReadField(b, "Y") - ReadField(a, "Z") * ReadField(b, "Y")
        ry == ReadField(a, "Z") * ReadField(b, "X") - ReadField(a, "X") * ReadField(b, "Z")
        rz == ReadField(a, "X") * ReadField(b, "Y") - ReadField(a, "Y") * ReadField(b, "X")
    IN  CtorXYZ(rx, ry, rz)

\* static Vector<3,T> Cross(const Vector<3,T>& a, const Vector<3,T>& b)
Cross(a, b) ==
    LET rx == ReadField(a, "Y") * ReadField(b, "Z") - ReadField(a, "Z") * ReadField(b, "Y")
        ry == ReadField(a, "Z") * ReadField(b, "X") - ReadField(a, "X") * ReadField(b, "Z")
        rz == ReadField(a, "X") * ReadField(b, "Y") - ReadField(a, "Y") * ReadField(b, "X")
    IN  CtorXYZ(rx, ry, rz)

\* VectorBase: unary operator-, element-wise
Neg(v) == [i \in Slots |-> 0 - v[i]]

\* VectorBase: Dot(a, b), the sum over i of a[i] * b[i]
RECURSIVE DotUpTo(_, _, _)
DotUpTo(a, b, n) ==
    IF n = 0 THEN 0 ELSE DotUpTo(a, b, n - 1) + a[n - 1] * b[n - 1]

Dot(a, b) == DotUpTo(a, b, Size)

InitCross ==
    /\ ca \in [Slots -> CrossElem]
    /\ cb \in [Slots -> CrossElem]
    /\ cr = ValueInit
    /\ cpc = "ready"

IdleCross ==
    /\ ca = ValueInit
    /\ cb = ValueInit
    /\ cr = ValueInit
    /\ cpc = "idle"

CallCross ==
    /\ cpc = "ready"
    /\ cr' = Cross(ca, cb)
    /\ cpc' = "done"
    /\ UNCHANGED <<ca, cb>>
    /\ CrossFrame

(***************************************************************************)
(* Application                                                             *)
(***************************************************************************)
EventTypes == {"WindowClose", "WindowResize", "KeyPressed"}

\* bool Application::OnWindowClose(WindowCloseEvent&): the value it leaves
\* in m_IsRunning
OnWindowCloseRunning == FALSE

\* ... and the value it returns
OnWindowCloseReturn == TRUE

\* faulty variant: the handler runs for every event
DispatchesAny(e) == TRUE

\* dispatcher.Dispatch<WindowCloseEvent>(...): the handler runs for an event
\* of that type only
Dispatches(e) == e = "WindowClose"

\* void Application::OnEvent(Event& event): m_IsRunning after the call
OnEventRunning(running, e) ==
    IF Dispatches(e) THEN OnWindowCloseRunning ELSE running

\* ... and event.Handled after the call
OnEventHandled(e) ==
    IF Dispatches(e) THEN OnWindowCloseReturn ELSE FALSE

\* while (m_IsRunning)
LoopCondition(running) == running

Min(a, b) == IF a <= b THEN a ELSE b

InitApp ==
    /\ m_IsRunning \in BOOLEAN
    /\ pc = "main"
    /\ nEvents = 0
    /\ lastEvent = "none"
    /\ handled = FALSE
    /\ frames = 0
    /\ closeSeen = FALSE

IdleApp ==
    /\ m_IsRunning = FALSE
    /\ pc = "off"
    /\ nEvents = 0
    /\ lastEvent = "none"
    /\ handled = FALSE
    /\ frames = 0
    /\ closeSeen = FALSE

\* main: sandbox->Run()
CallRun ==
    /\ pc = "main"
    /\ pc' = "test"
    /\ UNCHANGED <<m_IsRunning, nEvents, lastEvent, handled, frames, closeSeen>>
    /\ AppFrame

\* Run: the loop condition holds, m_Window->OnUpdate() is entered
EnterUpdate ==
    /\ pc = "test"
    /\ LoopCondition(m_IsRunning)
    /\ pc' = "update"
    /\ nEvents' = 0
    /\ frames' = Min(frames + 1, MaxFrames)
    /\ UNCHANGED <<m_IsRunning, lastEvent, handled, closeSeen>>
    /\ AppFrame

\* Run: the loop condition fails, Run returns
ReturnRun ==
    /\ pc = "test"
    /\ ~LoopCondition(m_IsRunning)
    /\ pc' = "returned"
    /\ UNCHANGED <<m_IsRunning, nEvents, lastEvent, handled, frames, closeSeen>>
    /\ AppFrame

\* inside OnUpdate the window passes one event to the callback, OnEvent
DeliverEvent ==
    /\ pc = "update"
    /\ nEvents < MaxEventsPerUpdate
    /\ \E e \in EventTypes :
        /\ m_IsRunning' = OnEventRunning(m_IsRunning, e)
        /\ handled' = OnEventHandled(e)
        /\ lastEvent' = e
        /\ closeSeen' = (closeSeen \/ e = "WindowClose")
    /\ nEvents' = nEvents + 1
    /\ UNCHANGED <<pc, frames>>
    /\ AppFrame

\* OnUpdate returns to the loop
LeaveUpdate ==
    /\ pc = "update"
    /\ pc' = "test"
    /\ UNCHANGED <<m_IsRunning, nEvents, lastEvent, handled, frames, closeSeen>>
    /\ AppFrame

(***************************************************************************)
(* File                                                                    *)
(***************************************************************************)
Paths == {"a.txt", "b.txt"}
NoFile == "<no file>"
Empty == ""
Contents == {Empty, "x", "y"}

\* std::ofstream file; file.open(filepath): the file system it leaves
\* (the default mode creates the file, or truncates the one there)
OfstreamOpen(files, ok, path) ==
    IF path \in ok THEN [files EXCEPT ![path] = Empty] ELSE files

\* file.is_open()
IsOpen(ok, path) == path \in ok

\* bool File::Exists(const std::string& filepath): the file system it leaves
ExistsFs(files, ok, path) == OfstreamOpen(files, ok, path)

\* ... and its return value
ExistsRet(ok, path) == IsOpen(ok, path)

\* bool File::Write(filepath, content, overwrite): the file system it leaves
WriteFs(files, ok, path, content, overwrite) ==
    IF IsOpen(ok, path)
    THEN [OfstreamOpen(files, ok, path) EXCEPT ![path] = content]
    ELSE OfstreamOpen(files, ok, path)

\* bool File::Delete(filepath): the file system it leaves
DeleteFs(files, ok, path) ==
    IF ~ExistsRet(ok, path)
    THEN ExistsFs(files, ok, path)
    ELSE [ExistsFs(files, ok, path) EXCEPT ![path] = NoFile]

InitFile ==
    /\ fs \in [Paths -> Contents \cup {NoFile}]
    /\ writable \in SUBSET Paths
    /\ fop = [op |-> "none", path |-> "", ret |-> FALSE]

IdleFile ==
    /\ fs = [p \in Paths |-> NoFile]
    /\ writable = {}
    /\ fop = [op |-> "none", path |-> "", ret |-> FALSE]

FileWrite ==
    /\ \E path \in Paths, content \in Contents, overwrite \in BOOLEAN :
        /\ fs' = WriteFs(fs, writable, path, content, overwrite)
        /\ fop' = [op |-> "Write", path |-> path, ret |-> IsOpen(writable, path)]
    /\ UNCHANGED writable
    /\ FileFrame

FileExists ==
    /\ \E path \in Paths :
        /\ fs' = ExistsFs(fs, writable, path)
        /\ fop' = [op |-> "Exists", path |-> path, ret |-> ExistsRet(writable, path)]
    /\ UNCHANGED writable
    /\ FileFrame

FileDelete ==
    /\ \E path \in Paths :
        /\ fs' = DeleteFs(fs, writable, path)
        /\ fop' = [op |-> "Delete", path |-> path, ret |-> ExistsRet(writable, path)]
    /\ UNCHANGED writable
    /\ FileFrame

(***************************************************************************)
(* Specifications                                                          *)
(***************************************************************************)
Init == InitVec /\ IdleCross /\ IdleApp /\ IdleFile
Next ==
    \/ ConstructDefault
    \/ ConstructScalar
    \/ ConstructExtend
    \/ ConstructXYZ
    \/ ConstructList
    \/ WriteField
    \/ WriteIndex
    \/ Destroy
Spec == Init /\ [][Next]_vars

CrossInit == IdleVec /\ InitCross /\ IdleApp /\ IdleFile
CrossNext == CallCross
SpecCross == CrossInit /\ [][CrossNext]_vars

AppInit == IdleVec /\ IdleCross /\ InitApp /\ IdleFile
AppNext ==
    \/ CallRun
    \/ EnterUpdate
    \/ ReturnRun
    \/ DeliverEvent
    \/ LeaveUpdate
\* the process keeps executing and Window::OnUpdate returns
SpecApp == AppInit /\ [][AppNext]_vars /\ WF_vars(AppNext)

FileInit == IdleVec /\ IdleCross /\ IdleApp /\ InitFile
FileNext ==
    \/ FileWrite
    \/ FileExists
    \/ FileDelete
SpecFile == FileInit /\ [][FileNext]_vars

(***************************************************************************)
(* Properties                                                              *)
(***************************************************************************)
\* the specification's naming of the sequence positions:
\* index 0 = X, 1 = Y, 2 = Z
IndexOfName(f) == IF f = "X" THEN 0 ELSE IF f = "Y" THEN 1 ELSE 2
NameOfIndex(i) == IF i = 0 THEN "X" ELSE IF i = 1 THEN "Y" ELSE "Z"

Vec3(x, y, z) == [i \in 0..2 |-> IF i = 0 THEN x ELSE IF i = 1 THEN y ELSE z]

\* C1: Cross(a, b) returns (a.Y*b.Z - a.Z*b.Y, a.Z*b.X - a.X*b.Z,
\* a.X*b.Y - a.Y*b.X), with X, Y, Z the elements at positions 0, 1, 2; in
\* particular Cross((1,0,0), (0,1,0)) is (0,0,1).
C1_CrossComponents ==
    cpc = "done" =>
        /\ cr = Vec3(ca[1] * cb[2] - ca[2] * cb[1],
                     ca[2] * cb[0] - ca[0] * cb[2],
                     ca[0] * cb[1] - ca[1] * cb[0])
        /\ (ca = Vec3(1, 0, 0) /\ cb = Vec3(0, 1, 0)) => cr = Vec3(0, 0, 1)

C1_Witness ==
    /\ cpc = "done"
    /\ ca = Vec3(1, 0, 0)
    /\ cb = Vec3(0, 1, 0)
    /\ cr = Vec3(0, 0, 1)

\* C2: constructing from an initializer list of more than 3 values fails the
\* assertion: the constructor does not complete, no vector is constructed
\* and no element is given a value.
C2_OversizedListAborts ==
    (last.op = "List" /\ Len(last.list) > 3) =>
        /\ vstate = "aborted"
        /\ initialized = {}

C2_Witness ==
    /\ last.op = "List"
    /\ last.list = <<1, 2, 1, 2>>
    /\ vstate = "aborted"

C4_NamedEqualsIndexed ==
    vstate = "constructed" =>
        /\ ReadField(Data, "X") = ReadIndex(Data, 0)
        /\ ReadField(Data, "Y") = ReadIndex(Data, 1)
        /\ ReadField(Data, "Z") = ReadIndex(Data, 2)
        /\ last.op = "WriteField" =>
              ReadIndex(Data, IndexOfName(last.field)) = last.list[1]
        /\ last.op = "WriteIndex" =>
              ReadField(Data, NameOfIndex(last.slot)) = last.list[1]
        /\ last.op = "XYZ" =>
              \A i \in 0..2 :
                  /\ ReadIndex(Data, i) = last.list[i + 1]
                  /\ ReadField(Data, NameOfIndex(i)) = last.list[i + 1]
        /\ \A f \in Fields, g \in Fields :
              f # g => FieldOffset(f) # FieldOffset(g)

C4_Witness ==
    /\ vstate = "constructed"
    /\ last.op = "WriteField"
    /\ last.field = "Y"
    /\ last.list = <<2>>
    /\ Data = Vec3(1, 2, 3)

\* C5: Cross(a, b) is the element-wise negation of Cross(b, a).
C5_CrossAntiCommutes ==
    cpc = "done" => cr = Neg(Cross(cb, ca))

C5_Witness ==
    /\ cpc = "done"
    /\ ca = Vec3(1, 2, -1)
    /\ cb = Vec3(-2, 1, 1)
    /\ cr = Vec3(3, 1, 5)
    /\ Cross(cb, ca) = Vec3(-3, -1, -5)

\* C6: Cross(a, b) is orthogonal to a and to b: Dot(Cross(a, b), a) = 0 and
\* Dot(Cross(a, b), b) = 0.
C6_CrossOrthogonal ==
    cpc = "done" =>
        /\ Dot(cr, ca) = 0
        /\ Dot(cr, cb) = 0

C6_Witness ==
    /\ cpc = "done"
    /\ ca = Vec3(1, 2, 0)
    /\ cb = Vec3(0, 1, 2)
    /\ cr = Vec3(4, -2, 1)

\* C7: the extension constructor Vector<3,T>(v, z) yields (v.X, v.Y, z);
\* (1,2) extended with 3 yields (1,2,3).
C7_ExtendAppendsScalar ==
    last.op = "Extend" =>
        /\ vstate = "constructed"
        /\ Data = Vec3(last.vec.X, last.vec.Y, last.list[1])
        /\ (last.vec = [X |-> 1, Y |-> 2] /\ last.list = <<3>>) =>
              Data = Vec3(1, 2, 3)

C7_Witness ==
    /\ last.op = "Extend"
    /\ last.vec = [X |-> 1, Y |-> 2]
    /\ last.list = <<3>>
    /\ Data = Vec3(1, 2, 3)

C9_RunLoopShutdown ==
    /\ [][m_IsRunning' # m_IsRunning =>
            /\ pc = "update"
            /\ lastEvent' = "WindowClose"
            /\ m_IsRunning' = FALSE]_vars
    /\ [][~m_IsRunning => ~m_IsRunning']_vars
    /\ [][(pc = "update" /\ pc' = "update" /\ lastEvent' # "WindowClose")
            => m_IsRunning' = m_IsRunning]_vars
    /\ [][closeSeen => ~(pc # "update" /\ pc' = "update")]_vars
    /\ (closeSeen ~> pc = "returned")

C9_Witness ==
    /\ closeSeen
    /\ pc = "returned"
    /\ frames = 2
    /\ lastEvent = "KeyPressed"
    /\ ~m_IsRunning

\* C10: File::Exists leaves the set of existing files and the content of
\* every file unchanged.
C10_ExistsReadOnly ==
    [][fop'.op = "Exists" => fs' = fs]_vars

====
